---- MODULE Spec2Model ----
(***************************************************************************)
(* A model of the tree-walking evaluator of src/eval.rs: the frame         *)
(* (enviornment: HashMap<String, Value>), the statements executed against  *)
(* it, the recursive expression evaluator, destructuring assignment, the   *)
(* operator engine and the module resolver of the Import statement.        *)
(*                                                                         *)
(* A Rust `&mut HashMap` threaded through the calls is modelled by a       *)
(* "world" record w that every evaluation function takes and returns:      *)
(*   w.env    the frame the call works on (the &mut enviornment)           *)
(*   w.log    what the process has done so far that a frame does not show: *)
(*            native calls actually invoked (output), user function calls, *)
(*            index reads, imports entered and left                        *)
(*   w.files, w.lib, w.origin_file, w.checks   the file system, RUSTL_LIB, *)
(*            args[1] and the build profile of the process                 *)
(* A result adds st ("ok", "err": the Err(String) of the Result, "panic":  *)
(* an unwinding panic of the process), val (the Ok value) and msg.         *)
(***************************************************************************)
EXTENDS Integers, Sequences, FiniteSets, TLC

VARIABLES enviornment, log, status, steps, last, files, rustl_lib,
          origin_file, overflow_checks, unit

vars == <<enviornment, log, status, steps, last, files, rustl_lib,
          origin_file, overflow_checks, unit>>

(***************************************************************************)
(* Bounds of the model.                                                    *)
(***************************************************************************)
\* statements of one program run
MaxSteps == 3
\* Int literals and operands range over -MaxInt..MaxInt in the unit harness
MaxInt == 3
\* length of the value lists drawn in the unit harness
MaxLen == 3

(***************************************************************************)
(* Value (crate::value::Value as eval.rs uses it).                         *)
(***************************************************************************)
Null == [t |-> "Null"]
IntV(v) == [t |-> "Int", v |-> v]
BoolV(b) == [t |-> "Bool", b |-> b]
StrV(s) == [t |-> "Str", s |-> s]
CharV(c) == [t |-> "Char", c |-> c]
ListV(e) == [t |-> "List", e |-> e]
FunctionV(f) == [t |-> "Function", f |-> f]
UserDefFunction(name, arguments, statements, return_expression) ==
    [t |-> "UserDefFunction", name |-> name, arguments |-> arguments,
     statements |-> statements, return_expression |-> return_expression]

None == [some |-> FALSE]
Some(x) == [some |-> TRUE, x |-> x]

(***************************************************************************)
(* AST (crate::ast as eval.rs matches on it).                              *)
(***************************************************************************)
EInt(v) == [k |-> "Int", v |-> v]
EString(s) == [k |-> "String", s |-> s]
EBoolean(b) == [k |-> "Boolean", b |-> b]
ECharacter(c) == [k |-> "Character", c |-> c]
EIdentifier(name) == [k |-> "Identifier", name |-> name]
ECall(function, arguments) ==
    [k |-> "Call", function |-> function, arguments |-> arguments]
EOperation(lhs, operator, rhs) ==
    [k |-> "Operation", lhs |-> lhs, operator |-> operator, rhs |-> rhs]
EList(items) == [k |-> "List", items |-> items]
EPrefix(name, operator, rhs) ==
    [k |-> "Prefix", name |-> name, operator |-> operator, rhs |-> rhs]
EIndex(name, idx_exp) == [k |-> "Index", name |-> name, idx_exp |-> idx_exp]
EComprehension(iterate_exp, var, control_exp) ==
    [k |-> "Comprehension", iterate_exp |-> iterate_exp, var |-> var,
     control_exp |-> control_exp]

ListItem(expression, is_spread, is_pack) ==
    [expression |-> expression, is_spread |-> is_spread, is_pack |-> is_pack]
Item(expression) == ListItem(expression, FALSE, FALSE)
Pack(expression) == ListItem(expression, FALSE, TRUE)
Spread(expression) == ListItem(expression, TRUE, FALSE)

SExpression(expression) == [k |-> "Expression", expression |-> expression]
SAssignment(lhs, rhs) == [k |-> "Assignment", lhs |-> lhs, rhs |-> rhs]
SOperatorAssignment(name, operator, rhs) ==
    [k |-> "OperatorAssignment", name |-> name, operator |-> operator,
     rhs |-> rhs]
IfBranch(condition, statements, elif_c, elif_s, else_statements) ==
    [condition |-> condition, statements |-> statements,
     elif_conditions |-> elif_c, elif_statements |-> elif_s,
     else_statements |-> else_statements]
SIf(params) == [k |-> "If", params |-> params]
SWhile(condition, statements) ==
    [k |-> "While", condition |-> condition, statements |-> statements]
SFor(loop_var, iterate_expression, statements) ==
    [k |-> "For", loop_var |-> loop_var,
     iterate_expression |-> iterate_expression, statements |-> statements]
SFunctionDefinition(name, arguments, statements, return_expression) ==
    [k |-> "FunctionDefinition", name |-> name, arguments |-> arguments,
     statements |-> statements, return_expression |-> return_expression]
SImport(path) == [k |-> "Import", path |-> path]

Operators == {"Plus", "Minus", "Times", "Divide", "LessThan", "GreaterThan",
              "Equal", "NotEqual"}

(***************************************************************************)
(* Results and the frame.                                                  *)
(***************************************************************************)
Ok(w, val) == [w EXCEPT !.st = "ok", !.val = val, !.msg = <<>>]
Err(w, msg) == [w EXCEPT !.st = "err", !.val = Null, !.msg = msg]
Panic(w, msg) == [w EXCEPT !.st = "panic", !.val = Null, !.msg = msg]

\* the same world working on another frame: a call made on `&mut x.clone()`
\* or on an explicit local_env
OnFrame(w, env) == [w EXCEPT !.env = env]

\* what the process did, appended in order
Logged(w, event) == [w EXCEPT !.log = Append(w.log, event)]

\* HashMap::insert
insert(env, name, value) ==
    [n \in (DOMAIN env) \cup {name} |-> IF n = name THEN value ELSE env[n]]

\* i32::unsigned_abs
unsigned_abs(idx) == IF idx < 0 THEN -idx ELSE idx

\* impl Add for &Value (value.rs): Int + Int; an unsupported pairing is the
\* "no result" Value::Null. The Ints of the model stay far inside the i32
\* range, so the sum never overflows.
ValueAdd(lhs, rhs) ==
    IF lhs.t = "Int" /\ rhs.t = "Int" THEN IntV(lhs.v + rhs.v)
    ELSE Null

\* impl PartialEq for Value (value.rs): structural
ValueEq(lhs, rhs) == lhs = rhs

operate(operator, lhs, rhs) ==
    CASE operator = "Plus" -> ValueAdd(lhs, rhs)
      [] operator = "Minus" -> ValueAdd(lhs, rhs)
      [] operator = "Times" -> ValueAdd(lhs, rhs)
      [] operator = "Divide" -> ValueAdd(lhs, rhs)
      [] operator = "LessThan" -> ValueAdd(lhs, rhs)
      [] operator = "GreaterThan" -> ValueAdd(lhs, rhs)
      [] operator = "Equal" -> BoolV(ValueEq(lhs, rhs))
      [] operator = "NotEqual" -> BoolV(~ValueEq(lhs, rhs))

(***************************************************************************)
(* Collaborators of eval.rs that live in other files of the crate.         *)
(***************************************************************************)
\* the native callables of the built-in library: print and println write
\* their arguments and yield Null; the write is the "invoke" event
NativeCall(w, function, f, vals) ==
    Ok(Logged(w, [ev |-> "invoke", function |-> function, f |-> f,
                  vals |-> vals]), Null)

\* impl IntoIterator for Value (value.rs): a List is traversed element by
\* element; any other value gives the iterator whose `value` is Null
IsIterable(var) == var.t = "List"
IntoIter(var) == IF var.t = "List" THEN var.e ELSE <<>>

\* Str::chars
Chars(s) == [i \in 1..Len(s) |-> CharV(s[i])]

\* crate::read_file: the text of the file at a path, or an io error
read_file_ok(w, path) == path \in DOMAIN w.files
read_file(w, path) == w.files[path]

(***************************************************************************)
(* The module files of the model and what ProgramParser::parse makes of    *)
(* their texts.                                                            *)
(***************************************************************************)
\* let v = 5; println("x");
TextM1 == "let v = 5; println('x');"
ProgramM1 ==
    <<SAssignment(EIdentifier("v"), EInt(5)),
      SExpression(ECall("println", <<EString(<<"x">>)>>))>>

\* a nested import, a function whose body prints, a call of it, a loop that
\* prints
TextM2 == "import m1.rl; fn q() { println('q'); } q(); for i in [1] { print(i); }"
ProgramM2 ==
    <<SImport([text |-> "m1.rl", dot |-> FALSE, slash |-> FALSE, rest |-> ""]),
      SFunctionDefinition("q", <<>>,
          <<SExpression(ECall("println", <<EString(<<"q">>)>>))>>, None),
      SExpression(ECall("q", <<>>)),
      SFor("i", EList(<<Item(EInt(1))>>),
           <<SExpression(ECall("print", <<EIdentifier("i")>>))>>)>>

\* a function that prints, called in the index of an assignment target
TextM3 == "fn one() { println('i'); } -> 0  let ys = [7]; ys[one()] = 8;"
ProgramM3 ==
    <<SFunctionDefinition("one", <<>>,
          <<SExpression(ECall("println", <<EString(<<"i">>)>>))>>,
          Some(EInt(0))),
      SAssignment(EIdentifier("ys"), EList(<<Item(EInt(7))>>)),
      SAssignment(EIndex("ys", ECall("one", <<>>)), EInt(8))>>

TextBad == "let = ;"

\* three copies of a module m.rl, one per directory it may be found in, each
\* binding `at` to a number that tells the copies apart
TextCwd == "let at = 0;"
TextLib == "let at = 1;"
TextOpt == "let at = 2;"
ProgramAt(mark) == <<SAssignment(EIdentifier("at"), EInt(mark))>>

\* ProgramParser::parse
ParseOk(text) ==
    text \in {"", TextM1, TextM2, TextM3, TextCwd, TextLib, TextOpt}
Parse(text) ==
    CASE text = "" -> <<>>
      [] text = TextM1 -> ProgramM1
      [] text = TextM2 -> ProgramM2
      [] text = TextM3 -> ProgramM3
      [] text = TextCwd -> ProgramAt(0)
      [] text = TextLib -> ProgramAt(1)
      [] text = TextOpt -> ProgramAt(2)

(***************************************************************************)
(* eval.rs                                                                 *)
(***************************************************************************)
\* Each function of eval.rs is an operator of the same name. Where the Rust
\* code goes on after a call that may fail (`?`, or a match on the Result),
\* the rest of the function is the operator named after what it does next,
\* which takes the outcome of that call as its first result argument.
RECURSIVE eval_expression(_, _, _), eval_expressions_from(_, _, _, _, _),
          eval_statement(_, _, _), eval_statements_from(_, _, _, _),
          assign(_, _, _), assign_list(_, _, _), assign_pairs(_, _, _, _),
          eval_list_items(_, _, _, _, _),
          comprehension_loop(_, _, _, _, _, _, _),
          for_loop(_, _, _, _, _), while_loop(_, _, _, _)

eval_statements(w, statements, importing) ==
    eval_statements_from(w, statements, 1, importing)

\* `eval_statement(..)?` inside the loop of eval_statements
next_statement(r, statements, x, importing) ==
    IF r.st # "ok" THEN r
    ELSE eval_statements_from(r, statements, x + 1, importing)

eval_statements_from(w, statements, x, importing) ==
    IF x > Len(statements) THEN Ok(w, Null)
    ELSE next_statement(eval_statement(w, statements[x], importing),
                        statements, x, importing)

eval_program(w, statements, importing) ==
    eval_statements(w, statements, importing)

\* the Ok value is ListV(vals): the Vec<Value> of the arguments
eval_expressions(w, expressions, importing) ==
    eval_expressions_from(w, expressions, 1, <<>>, importing)

next_expression(r, expressions, x, vals, importing) ==
    IF r.st # "ok" THEN r
    ELSE eval_expressions_from(r, expressions, x + 1, Append(vals, r.val),
                               importing)

eval_expressions_from(w, expressions, x, vals, importing) ==
    IF x > Len(expressions) THEN Ok(w, ListV(vals))
    ELSE next_expression(eval_expression(w, expressions[x], importing),
                         expressions, x, vals, importing)

\* local_env.insert(name, value) for each (value, name) of the zip
RECURSIVE bind_arguments(_, _, _, _)
bind_arguments(local_env, vals, arguments, x) ==
    IF x > Len(vals) \/ x > Len(arguments) THEN local_env
    ELSE bind_arguments(insert(local_env, arguments[x], vals[x]), vals,
                        arguments, x + 1)

\* return_from as it would be had the body and the return expression run on
\* the caller's own frame instead of copies of it
return_from_shared(a, v, b, importing) ==
    IF b.st # "ok" THEN b
    ELSE IF v.return_expression.some
    THEN eval_expression(b, v.return_expression.x, importing)
    ELSE Ok(b, Null)

\* return_from as it would be had the return expression been evaluated on a
\* copy of the frame that ran the body
return_from_local(a, v, b, importing) ==
    IF b.st # "ok" THEN OnFrame(b, a.env)
    ELSE IF v.return_expression.some
    THEN OnFrame(eval_expression(b, v.return_expression.x, importing), a.env)
    ELSE Ok(OnFrame(b, a.env), Null)

\* after the body of a user-defined function ran: a is the world after the
\* arguments were evaluated (a.env the caller's frame), b the outcome of the
\* body on local_env. The return expression is evaluated on
\* `&mut enviornment.clone()`.
return_from(a, v, b, importing) ==
    IF b.st # "ok" THEN OnFrame(b, a.env)
    ELSE IF v.return_expression.some
    THEN OnFrame(eval_expression(OnFrame(b, a.env), v.return_expression.x,
                                 importing), a.env)
    ELSE Ok(OnFrame(b, a.env), Null)

\* the Value::UserDefFunction arm of a Call
call_user_def(a, v, vals, importing) ==
    IF Len(vals) # Len(v.arguments)
    THEN Err(a, <<"Expected {} arguments, got {}", ToString(Len(v.arguments)),
                  ToString(Len(vals))>>)
    ELSE return_from(a, v,
                     eval_statements(
                         OnFrame(a, bind_arguments(a.env, vals, v.arguments,
                                                   1)),
                         v.statements, importing),
                     importing)

\* the record of a call of a user-defined function: the caller's frame when
\* the arguments had been evaluated (pre) and when the call returned (post)
call_returned(a, function, r) ==
    Logged(r, [ev |-> "call", function |-> function,
               callee |-> a.env[function], vals |-> a.val.e, pre |-> a.env,
               post |-> r.env, st |-> r.st, val |-> r.val, msg |-> r.msg])

\* the Call arm after `eval_expressions(..)?`
call_function(a, function, importing) ==
    IF a.st # "ok" THEN a
    ELSE IF function \notin DOMAIN a.env
    THEN Err(a, <<"'{}' is not defined", function>>)
    ELSE CASE a.env[function].t = "Function" ->
                IF importing /\ (function = "print" \/ function = "println")
                THEN Ok(a, Null)
                ELSE NativeCall(a, function, a.env[function].f, a.val.e)
           [] a.env[function].t = "UserDefFunction" ->
                call_returned(a, function,
                              call_user_def(a, a.env[function], a.val.e,
                                            importing))
           [] OTHER -> Err(a, <<"'{}' is not a function", function>>)

eval_call(w, function, arguments, importing) ==
    call_function(eval_expressions(w, arguments, importing), function,
                  importing)

operation_apply(l, r, operator) ==
    IF r.st # "ok" THEN r
    ELSE IF operate(operator, l.val, r.val) = Null
    THEN Err(r, <<"Invalid Operation">>)
    ELSE Ok(r, operate(operator, l.val, r.val))

operation_rhs(l, rhs, operator, importing) ==
    IF l.st # "ok" THEN l
    ELSE operation_apply(l, eval_expression(l, rhs, importing), operator)

eval_operation(w, lhs, rhs, operator, importing) ==
    operation_rhs(eval_expression(w, lhs, importing), rhs, operator,
                  importing)

list_item(r, items, x, vals, importing) ==
    IF r.st # "ok" THEN r
    ELSE IF ~items[x].is_spread \/ r.val.t = "List"
    THEN eval_list_items(r, items, x + 1,
                         IF ~items[x].is_spread THEN Append(vals, r.val)
                         ELSE vals \o r.val.e,
                         importing)
    ELSE Err(r, <<"only lists can be spread!">>)

eval_list_items(w, items, x, vals, importing) ==
    IF x > Len(items) THEN Ok(w, ListV(vals))
    ELSE list_item(eval_expression(w, items[x].expression, importing), items,
                   x, vals, importing)

prefix_apply(lhs, name, operator, r) ==
    IF r.st # "ok" THEN r
    ELSE IF operate(operator, lhs, r.val) = Null
    THEN Err(r, <<"Cannot operate on {}", name>>)
    ELSE Ok(OnFrame(r, insert(r.env, name, operate(operator, lhs, r.val))),
            operate(operator, lhs, r.val))

eval_prefix(w, name, operator, rhs, importing) ==
    IF name \notin DOMAIN w.env THEN Err(w, <<"'{}' is not defined", name>>)
    ELSE prefix_apply(w.env[name], name, operator,
                      eval_expression(w, rhs, importing))

\* Iterator::nth(n).unwrap_or_else(|| panic!(..))
nth(w, iterator, n, idx) ==
    IF n < Len(iterator) THEN Ok(w, iterator[n + 1])
    ELSE Panic(w, <<"Err retreiving value at {}", ToString(idx)>>)

\* index_into with an exclusive bound: an index magnitude equal to the
\* length is rejected
index_into_exclusive(var, name, r) ==
    IF r.st # "ok" THEN r
    ELSE IF r.val.t # "Int" THEN Err(r, <<"Index must be of type int">>)
    ELSE IF ~IsIterable(var)
    THEN Err(r, <<"Cannot iterate over variable {}", name>>)
    ELSE IF unsigned_abs(r.val.v) >= Len(IntoIter(var))
    THEN Err(r, <<"Index {} is out of bounds", ToString(r.val.v)>>)
    ELSE IF r.val.v < 0
    THEN nth(r, IntoIter(var), Len(IntoIter(var)) - unsigned_abs(r.val.v),
             r.val.v)
    ELSE nth(r, IntoIter(var), unsigned_abs(r.val.v), r.val.v)

\* the Index arm once the index expression is evaluated (r); var is the
\* value bound to name
index_into(var, name, r) ==
    IF r.st # "ok" THEN r
    ELSE IF r.val.t # "Int" THEN Err(r, <<"Index must be of type int">>)
    ELSE IF ~IsIterable(var)
    THEN Err(r, <<"Cannot iterate over variable {}", name>>)
    ELSE IF unsigned_abs(r.val.v) > Len(IntoIter(var))
    THEN Err(r, <<"Index {} is out of bounds", ToString(r.val.v)>>)
    ELSE IF r.val.v < 0
    THEN nth(r, IntoIter(var), Len(IntoIter(var)) - unsigned_abs(r.val.v),
             r.val.v)
    ELSE nth(r, IntoIter(var), unsigned_abs(r.val.v), r.val.v)

\* the index expression is evaluated on `&mut enviornment.clone()`
eval_index(w, name, idx_exp, importing) ==
    IF name \notin DOMAIN w.env THEN Err(w, <<"'{}' is not defined", name>>)
    ELSE index_into(w.env[name], name,
                    OnFrame(eval_expression(w, idx_exp, importing), w.env))

comprehension_item(r, iterate_exp, var, e, x, output, importing) ==
    IF r.st # "ok" THEN r
    ELSE comprehension_loop(r, iterate_exp, var, e, x + 1,
                            Append(output, r.val), importing)

\* the `for` loops of the Comprehension arm; w.env is local_env
comprehension_loop(w, iterate_exp, var, e, x, output, importing) ==
    IF x > Len(e) THEN Ok(w, ListV(output))
    ELSE comprehension_item(
             eval_expression(OnFrame(w, insert(w.env, var, e[x])),
                             iterate_exp, importing),
             iterate_exp, var, e, x, output, importing)

NotIterableName(t) ==
    CASE t = "Bool" -> "Bool"
      [] t = "UserDefFunction" -> "Function"
      [] OTHER -> t

\* what the loop of the Comprehension arm runs over: the elements of a
\* List, the chars of a Str
ComprehensionItems(control_val) ==
    IF control_val.t = "List" THEN control_val.e ELSE Chars(control_val.s)

\* comprehension_over as it would be had control_exp and the items been
\* evaluated on the enclosing frame itself instead of local_env
comprehension_over_shared(w, c, iterate_exp, var, importing) ==
    IF c.st # "ok" THEN c
    ELSE IF c.val.t \in {"List", "Str"}
    THEN comprehension_loop(c, iterate_exp, var, ComprehensionItems(c.val),
                            1, <<>>, importing)
    ELSE Err(c, <<"{} is not iterable", NotIterableName(c.val.t)>>)

\* the Comprehension arm after control_exp was evaluated on local_env (c);
\* local_env is dropped when the arm returns
comprehension_over(w, c, iterate_exp, var, importing) ==
    IF c.st # "ok" THEN OnFrame(c, w.env)
    ELSE IF c.val.t \in {"List", "Str"}
    THEN OnFrame(comprehension_loop(c, iterate_exp, var,
                                    ComprehensionItems(c.val), 1, <<>>,
                                    importing), w.env)
    ELSE Err(OnFrame(c, w.env),
             <<"{} is not iterable", NotIterableName(c.val.t)>>)

eval_comprehension(w, iterate_exp, var, control_exp, importing) ==
    comprehension_over(w, eval_expression(w, control_exp, importing),
                       iterate_exp, var, importing)

eval_expression(w, expression, importing) ==
    CASE expression.k = "Int" -> Ok(w, IntV(expression.v))
      [] expression.k = "String" -> Ok(w, StrV(expression.s))
      [] expression.k = "Boolean" -> Ok(w, BoolV(expression.b))
      [] expression.k = "Character" -> Ok(w, CharV(expression.c))
      [] expression.k = "Identifier" ->
            IF expression.name \in DOMAIN w.env
            THEN Ok(w, w.env[expression.name])
            ELSE Err(w, <<"'{}' is not defined", expression.name>>)
      [] expression.k = "Call" ->
            eval_call(w, expression.function, expression.arguments, importing)
      [] expression.k = "Operation" ->
            eval_operation(w, expression.lhs, expression.rhs,
                           expression.operator, importing)
      [] expression.k = "List" ->
            eval_list_items(w, expression.items, 1, <<>>, importing)
      [] expression.k = "Prefix" ->
            eval_prefix(w, expression.name, expression.operator,
                        expression.rhs, importing)
      [] expression.k = "Index" ->
            eval_index(w, expression.name, expression.idx_exp, importing)
      [] expression.k = "Comprehension" ->
            eval_comprehension(w, expression.iterate_exp, expression.var,
                               expression.control_exp, importing)

\* Vec's `list[pos] = rhs` (bounds-checked: a position past the end panics)
\* followed by `enviornment.insert(name, Value::List { e: list })`
vec_set(w, name, list, pos, rhs) ==
    IF pos < Len(list)
    THEN Ok(OnFrame(w, insert(w.env, name,
                              ListV([list EXCEPT ![pos + 1] = rhs]))), Null)
    ELSE Panic(w, <<"index out of bounds: the len is {} but the index is {}",
                    ToString(Len(list)), ToString(pos)>>)

CannotIndexName(t) ==
    CASE t = "Bool" -> "Boolean"
      [] t = "UserDefFunction" -> "Function"
      [] OTHER -> t

\* index_store with an exclusive bound: an index magnitude equal to the
\* length is rejected before the element is accessed
index_store_exclusive(var, name, r, rhs) ==
    IF r.st # "ok" THEN r
    ELSE IF var.t = "Str" THEN Err(r, <<"Cannot assign to String Index">>)
    ELSE IF var.t # "List"
    THEN Err(r, <<"Cannot index {}", CannotIndexName(var.t)>>)
    ELSE IF r.val.t # "Int" THEN Err(r, <<"Index must be of type int">>)
    ELSE IF unsigned_abs(r.val.v) >= Len(var.e)
    THEN Err(r, <<"Index {} is out of bounds", ToString(r.val.v)>>)
    ELSE IF r.val.v < 0
    THEN vec_set(r, name, var.e, Len(var.e) - unsigned_abs(r.val.v), rhs)
    ELSE vec_set(r, name, var.e, unsigned_abs(r.val.v), rhs)

\* index_store without the branch for a negative index
index_store_unsigned(var, name, r, rhs) ==
    IF r.st # "ok" THEN r
    ELSE IF var.t = "Str" THEN Err(r, <<"Cannot assign to String Index">>)
    ELSE IF var.t # "List"
    THEN Err(r, <<"Cannot index {}", CannotIndexName(var.t)>>)
    ELSE IF r.val.t # "Int" THEN Err(r, <<"Index must be of type int">>)
    ELSE IF unsigned_abs(r.val.v) > Len(var.e)
    THEN Err(r, <<"Index {} is out of bounds", ToString(r.val.v)>>)
    ELSE vec_set(r, name, var.e, unsigned_abs(r.val.v), rhs)

\* the Expression::Index arm of assign once the index expression is
\* evaluated (r); var is the value bound to name
index_store(var, name, r, rhs) ==
    IF r.st # "ok" THEN r
    ELSE IF var.t = "Str" THEN Err(r, <<"Cannot assign to String Index">>)
    ELSE IF var.t # "List"
    THEN Err(r, <<"Cannot index {}", CannotIndexName(var.t)>>)
    ELSE IF r.val.t # "Int" THEN Err(r, <<"Index must be of type int">>)
    ELSE IF unsigned_abs(r.val.v) > Len(var.e)
    THEN Err(r, <<"Index {} is out of bounds", ToString(r.val.v)>>)
    ELSE IF r.val.v < 0
    THEN vec_set(r, name, var.e, Len(var.e) - unsigned_abs(r.val.v), rhs)
    ELSE vec_set(r, name, var.e, unsigned_abs(r.val.v), rhs)

\* the Expression::Index arm of assign: the index expression is evaluated on
\* `&mut enviornment.clone()` with importing = false
assign_index(w, name, idx_exp, rhs) ==
    IF name \notin DOMAIN w.env THEN Err(w, <<"'{}' is not defined", name>>)
    ELSE index_store(w.env[name], name,
                     OnFrame(eval_expression(w, idx_exp, FALSE), w.env), rhs)

assign(w, lhs, rhs) ==
    CASE lhs.k = "Identifier" ->
            IF lhs.name = "_" THEN Ok(w, Null)
            ELSE Ok(OnFrame(w, insert(w.env, lhs.name, rhs)), Null)
      [] lhs.k = "List" ->
            IF rhs.t # "List"
            THEN Err(w, <<"cannot destructure non-list into list">>)
            ELSE assign_list(w, lhs.items, rhs.e)
      [] lhs.k = "Index" -> assign_index(w, lhs.name, lhs.idx_exp, rhs)
      [] OTHER -> Err(w, <<"Cannot assign to a {}", lhs.k>>)

\* `lhs.len() - 1` on usize: with overflow checks (a debug build) 0 - 1
\* panics; without them (a release build) it wraps to usize::MAX
usize_sub_overflows(checks, a, b) == checks /\ a < b
\* `x == lhs.len() - 1` where the subtraction did not panic: the wrapped
\* usize::MAX equals no x below rhs.len()
is_last(x, len) == IF len = 0 THEN FALSE ELSE x = len - 1

\* rhs[x..].to_vec()
slice_from(rhs, x) == SubSeq(rhs, x + 1, Len(rhs))

\* the first loop of assign_list, from iteration x (0-based) on; its Ok value
\* holds the two queues
RECURSIVE assign_queue(_, _, _, _, _, _)
assign_queue(w, lhs, rhs, x, names, values) ==
    IF x >= Len(rhs) THEN Ok(w, [names |-> names, values |-> values])
    ELSE IF usize_sub_overflows(w.checks, Len(lhs), 1)
    THEN Panic(w, <<"attempt to subtract with overflow">>)
    ELSE IF is_last(x, Len(lhs)) /\ Len(lhs) # Len(rhs)
    THEN IF ~lhs[x + 1].is_pack
         THEN Err(w, <<"Cannot assign {} values to {} items",
                       ToString(Len(rhs)), ToString(Len(lhs))>>)
         ELSE Ok(w, [names |-> Append(names, lhs[x + 1]),
                     values |-> Append(values, ListV(slice_from(rhs, x)))])
    ELSE IF x >= Len(lhs)
    THEN Panic(w, <<"index out of bounds: the len is {} but the index is {}",
                    ToString(Len(lhs)), ToString(x)>>)
    ELSE IF lhs[x + 1].is_spread
    THEN Err(w, <<"Cannot use spread in list assignment">>)
    ELSE assign_queue(w, lhs, rhs, x + 1, Append(names, lhs[x + 1]),
                      Append(values, rhs[x + 1]))

next_pair(r, names, values, x) ==
    IF r.st # "ok" THEN r ELSE assign_pairs(r, names, values, x + 1)

\* the second loop of assign_list: assign each pair of the zip
assign_pairs(w, names, values, x) ==
    IF x > Len(names) \/ x > Len(values) THEN Ok(w, Null)
    ELSE next_pair(assign(w, names[x].expression, values[x]), names, values,
                   x)

\* assign_list after its first loop (q)
assign_queued(q) ==
    IF q.st # "ok" THEN q
    ELSE assign_pairs(q, q.val.names, q.val.values, 1)

assign_list(w, lhs, rhs) ==
    IF Len(lhs) > Len(rhs)
    THEN Err(w, <<"Cannot assign {} values to {} items", ToString(Len(rhs)),
                  ToString(Len(lhs))>>)
    ELSE assign_queued(assign_queue(w, lhs, rhs, 0, <<>>, <<>>))

operator_assign(lhs, name, operator, r) ==
    IF r.st # "ok" THEN r
    ELSE IF operate(operator, lhs, r.val) = Null
    THEN Err(r, <<"Cannot operate on {}", name>>)
    ELSE Ok(OnFrame(r, insert(r.env, name, operate(operator, lhs, r.val))),
            Null)

eval_operator_assignment(w, name, operator, rhs, importing) ==
    IF name \notin DOMAIN w.env THEN Err(w, <<"'{}' is not defined", name>>)
    ELSE operator_assign(w.env[name], name, operator,
                         eval_expression(w, rhs, importing))

\* the If arm after the condition was evaluated (c); the `_` arm of the
\* match takes an Err of the condition as well
if_branch(c, params, importing) ==
    IF c.st = "panic" THEN c
    ELSE IF c.st = "ok" /\ c.val = BoolV(TRUE)
    THEN eval_statements(c, params.statements, importing)
    ELSE IF c.st = "ok" /\ c.val = BoolV(FALSE)
    THEN IF params.elif_conditions # <<>>
         THEN eval_statement(
                  c,
                  SIf(IfBranch(params.elif_conditions[1],
                               params.elif_statements[1],
                               Tail(params.elif_conditions),
                               Tail(params.elif_statements),
                               params.else_statements)),
                  importing)
         ELSE IF params.else_statements.some
         THEN eval_statements(c, params.else_statements.x, importing)
         ELSE Ok(c, Null)
    ELSE Err(c, <<"Condition must be of type 'bool'">>)

eval_if(w, params, importing) ==
    if_branch(eval_expression(w, params.condition, importing), params,
              importing)

while_body(r, condition, statements, importing) ==
    IF r.st # "ok" THEN r
    ELSE while_loop(r, condition, statements, importing)

while_condition(c, condition, statements, importing) ==
    IF c.st # "ok" THEN c
    ELSE IF c.val.t # "Bool"
    THEN Err(c, <<"Condition must be of type 'bool'">>)
    ELSE IF ~c.val.b THEN Ok(c, Null)
    ELSE while_body(eval_statements(c, statements, importing), condition,
                    statements, importing)

while_loop(w, condition, statements, importing) ==
    while_condition(eval_expression(w, condition, importing), condition,
                    statements, importing)

for_body(r, params, iterator_list, x, importing) ==
    IF r.st # "ok" THEN r
    ELSE for_loop(r, params, iterator_list, x + 1, importing)

\* the frame an iteration starts with, and the record of the iteration
iteration_frame(w, params, element) ==
    insert(w.env, params.loop_var, element)
iteration(w, params, x, element) ==
    Logged(OnFrame(w, iteration_frame(w, params, element)),
           [ev |-> "iteration", params |-> params, x |-> x,
            frame |-> iteration_frame(w, params, element)])

\* the list the source variable holds now, when the iterable expression is
\* an identifier bound to a List; iterator_list otherwise
live_list(w, params, iterator_list) ==
    IF /\ params.iterate_expression.k = "Identifier"
       /\ params.iterate_expression.name \in DOMAIN w.env
       /\ w.env[params.iterate_expression.name].t = "List"
    THEN w.env[params.iterate_expression.name].e
    ELSE iterator_list

\* for_loop iterating over the list as the source variable holds it at each
\* iteration instead of the list evaluated before the loop
for_loop_live(w, params, iterator_list, x, importing) ==
    IF x > Len(live_list(w, params, iterator_list)) THEN Ok(w, Null)
    ELSE for_body(
             eval_statements(iteration(w, params, x,
                                 live_list(w, params, iterator_list)[x]),
                             params.statements, importing),
             params, iterator_list, x, importing)

\* `for list_item in iterator_list`, from element x on
for_loop(w, params, iterator_list, x, importing) ==
    IF x > Len(iterator_list) THEN Ok(w, Null)
    ELSE for_body(
             eval_statements(iteration(w, params, x, iterator_list[x]),
                             params.statements, importing),
             params, iterator_list, x, importing)

NotIterableMessage(k) ==
    CASE k = "Int" -> "Integer literals are not iterable"
      [] k = "String" -> "String literals are not iterable"
      [] k = "Boolean" -> "Boolean literals are not iterable"
      [] k = "Character" -> "Character literals are not iterable"
      [] k = "Operation" -> "Operations are not iterable"
      [] k = "Prefix" -> "Prefix's are not iterable"
      [] k = "Index" -> "Indexes are not iterable"
      [] k = "Comprehension" -> "Comprehensions are not iterable"

\* the For arm after the iterable expression was evaluated (v)
for_over(v, params, importing) ==
    IF v.st # "ok" THEN v
    ELSE IF v.val.t # "List" THEN Err(v, <<"Invalid Type">>)
    ELSE for_loop(v, params, v.val.e, 1, importing)

eval_for(w, params, importing) ==
    IF params.iterate_expression.k \notin {"List", "Identifier", "Call"}
    THEN Err(w, <<NotIterableMessage(params.iterate_expression.k)>>)
    ELSE for_over(eval_expression(w, params.iterate_expression, importing),
                  params, importing)

eval_function_definition(w, name, arguments, statements, return_expression) ==
    IF name \in DOMAIN w.env
    THEN Err(w, <<"Function '{}' is already defined!">>)
    ELSE Ok(OnFrame(w, insert(w.env, name,
                              UserDefFunction(name, arguments, statements,
                                              return_expression))), Null)

(***************************************************************************)
(* Statement::Import                                                       *)
(***************************************************************************)
\* A path text is a record: its text, dot (the text starts with "."), slash
\* (it contains "/") and rest (the text after the first ".", which replacen
\* keeps). args[1] also carries the parent() of its text and of its rest.
PathText(text, dot, slash, rest) ==
    [text |-> text, dot |-> dot, slash |-> slash, rest |-> rest]

\* current_dir()
Cwd == "/cwd"

\* Path::new(&full_path).parent() of the entry file
parent_dir(w) ==
    IF w.origin_file.dot THEN Cwd \o w.origin_file.rest_parent
    ELSE w.origin_file.parent

\* `for dir in paths`: the text of the first file that opens, "" if none
RECURSIVE lib_search(_, _, _, _)
lib_search(w, paths, x, path) ==
    IF x > Len(paths) THEN ""
    ELSE IF read_file_ok(w, paths[x] \o "/" \o path.text)
    THEN read_file(w, paths[x] \o "/" \o path.text)
    ELSE lib_search(w, paths, x + 1, path)

\* the result of one read_file: the text, or the path of the error message
opened(w, file_path, shown) ==
    IF read_file_ok(w, file_path)
    THEN [ok |-> TRUE, text |-> read_file(w, file_path)]
    ELSE [ok |-> FALSE, at |-> shown]

\* the last branch of external_code, after the entry file's directory: out
\* is what the search of RUSTL_LIB found
from_lib(out, path) ==
    IF out = "" THEN [ok |-> FALSE, at |-> path.text]
    ELSE [ok |-> TRUE, text |-> out]

external_code(w, path) ==
    IF path.dot
    THEN opened(w, parent_dir(w) \o path.rest, parent_dir(w) \o path.rest)
    ELSE IF path.slash THEN opened(w, path.text, path.text)
    ELSE IF read_file_ok(w, parent_dir(w) \o "/" \o path.text)
    THEN opened(w, parent_dir(w) \o "/" \o path.text, path.text)
    ELSE from_lib(IF w.lib.some THEN lib_search(w, w.lib.x, 1, path) ELSE "",
                  path)

\* the Import arm once the source text is resolved (code)
import_code(w, path, code) ==
    IF ~code.ok THEN Err(w, <<"Error opening file at {}", code.at>>)
    ELSE IF ~ParseOk(code.text)
    THEN Panic(w, <<"called Result::unwrap() on an Err value">>)
    ELSE Logged(eval_program(Logged(w, [ev |-> "import_begin",
                                        path |-> path.text]),
                             Parse(code.text), TRUE),
                [ev |-> "import_end", path |-> path.text])

eval_import(w, path) == import_code(w, path, external_code(w, path))

expression_statement(r) == IF r.st # "ok" THEN r ELSE Ok(r, Null)

assign_value(v, lhs) == IF v.st # "ok" THEN v ELSE assign(v, lhs, v.val)

eval_statement(w, statement, importing) ==
    CASE statement.k = "Expression" ->
            expression_statement(
                eval_expression(w, statement.expression, importing))
      [] statement.k = "Assignment" ->
            assign_value(eval_expression(w, statement.rhs, importing),
                         statement.lhs)
      [] statement.k = "OperatorAssignment" ->
            eval_operator_assignment(w, statement.name, statement.operator,
                                     statement.rhs, importing)
      [] statement.k = "If" -> eval_if(w, statement.params, importing)
      [] statement.k = "While" ->
            while_loop(w, statement.condition, statement.statements,
                       importing)
      [] statement.k = "For" -> eval_for(w, statement, importing)
      [] statement.k = "FunctionDefinition" ->
            eval_function_definition(w, statement.name, statement.arguments,
                                     statement.statements,
                                     statement.return_expression)
      [] statement.k = "Import" -> eval_import(w, statement.path)

(***************************************************************************)
(* The statements a program of the model is made of.                       *)
(***************************************************************************)
Str1(c) == EString(<<c>>)
Call1(function, argument) == ECall(function, <<argument>>)
Bare(text) == PathText(text, FALSE, FALSE, "")

\* fn f(p) { x = 5; p += 1; q = p; } -> x
DefF ==
    SFunctionDefinition("f", <<"p">>,
        <<SAssignment(EIdentifier("x"), EInt(5)),
          SOperatorAssignment("p", "Plus", EInt(1)),
          SAssignment(EIdentifier("q"), EIdentifier("p"))>>,
        Some(EIdentifier("x")))
\* fn g(p) { } -> p
DefG == SFunctionDefinition("g", <<"p">>, <<>>, Some(EIdentifier("p")))
\* fn h(_) { y = _; }
DefH ==
    SFunctionDefinition("h", <<"_">>,
        <<SAssignment(EIdentifier("y"), EIdentifier("_"))>>, None)
\* fn k() { fn z() { } for i in [1] { x = i; } println("k"); } -> (x += 1)
DefK ==
    SFunctionDefinition("k", <<>>,
        <<SFunctionDefinition("z", <<>>, <<>>, None),
          SFor("i", EList(<<Item(EInt(1))>>),
               <<SAssignment(EIdentifier("x"), EIdentifier("i"))>>),
          SExpression(Call1("println", Str1("k")))>>,
        Some(EPrefix("x", "Plus", EInt(1))))
\* fn f() { } -> 1
DefF2 == SFunctionDefinition("f", <<>>, <<>>, Some(EInt(1)))

FunctionDefinitionStatements == {DefF, DefG, DefH, DefK, DefF2}

ExpressionStatements ==
    { SExpression(Call1("f", EInt(1))),
      SExpression(Call1("f", EPrefix("x", "Plus", EInt(1)))),
      SExpression(Call1("h", EInt(3))),
      SExpression(ECall("k", <<>>)),
      SExpression(Call1("println", Str1("x"))),
      SExpression(EIdentifier("_")),
      SExpression(EComprehension(EIdentifier("_"), "_", EIdentifier("xs"))) }

AssignmentStatements ==
    { SAssignment(EIdentifier("x"), EInt(1)),
      SAssignment(EIdentifier("xs"), EList(<<Item(EInt(1)), Item(EInt(2))>>)),
      SAssignment(EIdentifier("f"), EInt(1)),
      SAssignment(EList(<<Item(EIdentifier("a")), Pack(EIdentifier("f"))>>),
                  EList(<<Item(EInt(1)), Item(EInt(2)), Item(EInt(3))>>)),
      SAssignment(EIdentifier("_"), EInt(1)),
      SAssignment(EList(<<Item(EIdentifier("_")), Item(EIdentifier("a"))>>),
                  EList(<<Item(EInt(1)), Item(EInt(2))>>)),
      SAssignment(EIdentifier("r"), Call1("f", EInt(1))),
      SAssignment(EIdentifier("r"), Call1("g", EInt(2))),
      SAssignment(EIdentifier("r"), ECall("k", <<>>)),
      SAssignment(EIdentifier("r"), Call1("h", EInt(3))) }

OperatorAssignmentStatements ==
    { SOperatorAssignment("x", "Plus", EInt(1)),
      SOperatorAssignment("f", "Plus", EInt(1)) }

\* if x == 1 { x = 2; } elif x == 2 { f(1); } else { println("x"); }
IfStatements ==
    { SIf(IfBranch(EOperation(EIdentifier("x"), "Equal", EInt(1)),
                   <<SAssignment(EIdentifier("x"), EInt(2))>>,
                   <<EOperation(EIdentifier("x"), "Equal", EInt(2))>>,
                   << <<SExpression(Call1("f", EInt(1)))>> >>,
                   Some(<<SExpression(Call1("println", Str1("x")))>>))) }

\* while x != 2 { x = 2; }
WhileStatements ==
    { SWhile(EOperation(EIdentifier("x"), "NotEqual", EInt(2)),
             <<SAssignment(EIdentifier("x"), EInt(2))>>) }

ForStatements ==
    { SFor("_", EList(<<Item(EInt(1))>>), <<>>),
      SFor("f", EList(<<Item(EInt(1))>>), <<>>),
      SFor("i", EIdentifier("xs"),
           <<SOperatorAssignment("x", "Plus", EIdentifier("i"))>>),
      SFor("i", EInt(3), <<>>) }

ImportStatements ==
    { SImport(Bare("m1.rl")),
      SImport(PathText("./m2.rl", TRUE, TRUE, "/m2.rl")),
      SImport(Bare("m3.rl")),
      SImport(PathText("lib/none.rl", FALSE, TRUE, "")) }

(***************************************************************************)
(* The run of a program: eval_program executes its statements in order     *)
(* against the frame the host built; the first error ends the run.         *)
(***************************************************************************)
\* the frame the host hands to eval_program: the native library
InitialFrame ==
    [n \in {"print", "println"} |-> FunctionV(n)]

\* args[1] = "./main.rl"
MainOrigin ==
    [text |-> "./main.rl", dot |-> TRUE, rest |-> "/main.rl",
     rest_parent |-> "", parent |-> "."]

MainFiles ==
    [path \in {"/cwd/m1.rl", "/cwd/m2.rl", "/lib/m3.rl"} |->
        CASE path = "/cwd/m1.rl" -> TextM1
          [] path = "/cwd/m2.rl" -> TextM2
          [] path = "/lib/m3.rl" -> TextM3]

World(env) ==
    [env |-> env, log |-> <<>>, files |-> files, lib |-> rustl_lib,
     origin_file |-> origin_file, checks |-> overflow_checks,
     st |-> "ok", val |-> Null, msg |-> <<>>]

NoCall == [fn |-> "none"]
NoStatement == [statement |-> [k |-> "none"], pre |-> InitialFrame]

Init ==
    /\ enviornment = InitialFrame
    /\ log = <<>>
    /\ status = "running"
    /\ steps = 0
    /\ last = NoStatement
    /\ files = MainFiles
    /\ rustl_lib = Some(<<"/lib">>)
    /\ origin_file = MainOrigin
    /\ overflow_checks \in BOOLEAN
    /\ unit = NoCall

StatusOf(st) ==
    CASE st = "ok" -> "running"
      [] st = "err" -> "failed"
      [] st = "panic" -> "crashed"

\* what one iteration of the loop of eval_statements leaves behind; r is
\* the outcome of eval_statement
Commit(statement, r) ==
    /\ enviornment' = r.env
    /\ log' = r.log
    /\ status' = StatusOf(r.st)
    /\ last' = [statement |-> statement, pre |-> enviornment]
    /\ steps' = steps + 1
    /\ UNCHANGED <<files, rustl_lib, origin_file, overflow_checks, unit>>

\* eval_statement on the top-level frame, importing = false
Exec(statement) ==
    Commit(statement, eval_statement(World(enviornment), statement, FALSE))

Running == status = "running" /\ steps < MaxSteps

ExecExpression ==
    /\ Running
    /\ \E s \in ExpressionStatements : Exec(s)
ExecAssignment ==
    /\ Running
    /\ \E s \in AssignmentStatements : Exec(s)
ExecOperatorAssignment ==
    /\ Running
    /\ \E s \in OperatorAssignmentStatements : Exec(s)
ExecIf ==
    /\ Running
    /\ \E s \in IfStatements : Exec(s)
ExecWhile ==
    /\ Running
    /\ \E s \in WhileStatements : Exec(s)
ExecFor ==
    /\ Running
    /\ \E s \in ForStatements : Exec(s)
ExecFunctionDefinition ==
    /\ Running
    /\ \E s \in FunctionDefinitionStatements : Exec(s)
ExecImport ==
    /\ Running
    /\ \E s \in ImportStatements : Exec(s)

Next ==
    \/ ExecExpression
    \/ ExecAssignment
    \/ ExecOperatorAssignment
    \/ ExecIf
    \/ ExecWhile
    \/ ExecFor
    \/ ExecFunctionDefinition
    \/ ExecImport

Spec == Init /\ [][Next]_vars

(***************************************************************************)
(* The functions of eval.rs applied on their own: operate, assign_list,    *)
(* the Index arm of eval_expression and the Index arm of assign, each on   *)
(* inputs drawn from bounded sets. unit records the call and its outcome.  *)
(***************************************************************************)
Ints == (0 - MaxInt)..MaxInt

\* the List [10, 20, .., 10 * n]
Tens(n) == [x \in 1..n |-> IntV(10 * x)]

NameAt(x) ==
    CASE x = 1 -> "a"
      [] x = 2 -> "b"
      [] x = 3 -> "c"
      [] OTHER -> "d"

\* the list patterns of k identifier items: any item may be marked pack, the
\* first may be marked spread
Patterns(k) ==
    { [x \in 1..k |-> ListItem(EIdentifier(NameAt(x)), sp /\ x = 1,
                               x \in packs)] :
        packs \in SUBSET (1..k), sp \in BOOLEAN }

\* the frame the unit calls work on
UnitFrame(list) ==
    [n \in {"print", "println", "a", "i", "xs"} |->
        CASE n = "a" -> Null
          [] n = "i" -> IntV(-2)
          [] n = "xs" -> ListV(list)
          [] OTHER -> FunctionV(n)]

\* index expressions: every Int literal around the list's bounds, non-Int
\* literals, and expressions over the variable i, one of which mutates it
IndexLiterals == { EInt(x) : x \in (0 - (MaxLen + 1))..(MaxLen + 1) }
IndexExpressions ==
    IndexLiterals
    \cup { EBoolean(TRUE), Str1("a"), EIdentifier("i"),
           EPrefix("i", "Plus", EInt(1)), EIdentifier("nope"),
           EOperation(EPrefix("i", "Plus", EInt(1)), "Plus",
                      EIdentifier("nope")) }

\* comprehensions whose parts mutate i, rebind an existing name as the loop
\* variable, or fail after a mutation
\* [(i += 1) for j in xs]
ComprehensionMutatesPerItem ==
    EComprehension(EPrefix("i", "Plus", EInt(1)), "j", EIdentifier("xs"))
ComprehensionExpressions ==
    { ComprehensionMutatesPerItem,
      EComprehension(EIdentifier("j"), "j",
                     EList(<<Item(EPrefix("i", "Plus", EInt(1)))>>)),
      EComprehension(EIdentifier("i"), "i", EIdentifier("xs")),
      EComprehension(EPrefix("a", "Plus", EInt(1)), "a", EIdentifier("xs")),
      EComprehension(EIdentifier("c"), "c", Str1("a")),
      EComprehension(EIdentifier("j"), "j", EPrefix("i", "Plus", EInt(1))),
      EComprehension(EOperation(EPrefix("i", "Plus", EInt(1)), "Plus",
                                EIdentifier("nope")),
                     "j", EIdentifier("xs")),
      EComprehension(EIdentifier("j"), "j",
                     EList(<<Item(EPrefix("i", "Plus", EInt(1))),
                             Item(EIdentifier("nope"))>>)) }

InitUnit ==
    /\ enviornment = InitialFrame
    /\ log = <<>>
    /\ status = "running"
    /\ steps = 0
    /\ last = NoStatement
    /\ files = MainFiles
    /\ rustl_lib = Some(<<"/lib">>)
    /\ origin_file = MainOrigin
    /\ overflow_checks \in BOOLEAN
    /\ unit = NoCall

UnitUnchanged ==
    UNCHANGED <<enviornment, log, status, steps, last, files, rustl_lib,
                origin_file, overflow_checks>>

\* the record of a call: its inputs and the outcome r
Outcome(inputs, r) ==
    [fn |-> inputs.fn, idx_exp |-> inputs.idx_exp, lhs |-> inputs.lhs,
     rhs |-> inputs.rhs, pre |-> inputs.pre,
     st |-> r.st, val |-> r.val, msg |-> r.msg, env |-> r.env]

Inputs(fn, idx_exp, lhs, rhs, pre) ==
    [fn |-> fn, idx_exp |-> idx_exp, lhs |-> lhs, rhs |-> rhs, pre |-> pre]

ApplyOperate ==
    /\ unit = NoCall
    /\ \E operator \in Operators, a \in Ints, b \in Ints :
          unit' = [fn |-> "operate", operator |-> operator, a |-> a, b |-> b,
                   val |-> operate(operator, IntV(a), IntV(b))]
    /\ UnitUnchanged

ApplyAssignList ==
    /\ unit = NoCall
    /\ \E k \in 0..MaxLen, n \in 0..(MaxLen + 1) :
          \E lhs \in Patterns(k) :
             unit' = Outcome(Inputs("assign_list", EInt(0), lhs, Tens(n),
                                    UnitFrame(<<>>)),
                             assign_list(World(UnitFrame(<<>>)), lhs, Tens(n)))
    /\ UnitUnchanged

ApplyIndexRead ==
    /\ unit = NoCall
    /\ \E n \in 0..MaxLen, idx_exp \in IndexExpressions :
          unit' = Outcome(Inputs("index_read", idx_exp, <<>>, <<>>,
                                 UnitFrame(Tens(n))),
                          eval_expression(World(UnitFrame(Tens(n))),
                                          EIndex("xs", idx_exp), FALSE))
    /\ UnitUnchanged

ApplyIndexWrite ==
    /\ unit = NoCall
    /\ \E n \in 0..MaxLen, idx_exp \in IndexExpressions, v \in {IntV(99)} :
          unit' = Outcome(Inputs("index_write", idx_exp, <<>>, <<v>>,
                                 UnitFrame(Tens(n))),
                          assign(World(UnitFrame(Tens(n))),
                                 EIndex("xs", idx_exp), v))
    /\ UnitUnchanged

\* the read of name[i] that follows a successful name[i] = v; pre is the
\* frame the assignment left, lhs the frame it started from
ApplyReadBack ==
    /\ unit.fn = "index_write"
    /\ unit.st = "ok"
    /\ unit' = Outcome(Inputs("read_back", unit.idx_exp, unit.pre, unit.rhs,
                              unit.env),
                       eval_expression(World(unit.env),
                                       EIndex("xs", unit.idx_exp), FALSE))
    /\ UnitUnchanged

ApplyComprehension ==
    /\ unit = NoCall
    /\ \E n \in 0..MaxLen, expression \in ComprehensionExpressions :
          unit' = Outcome(Inputs("comprehension", expression, <<>>, <<>>,
                                 UnitFrame(Tens(n))),
                          eval_expression(World(UnitFrame(Tens(n))),
                                          expression, FALSE))
    /\ UnitUnchanged

NextUnit ==
    \/ ApplyOperate
    \/ ApplyAssignList
    \/ ApplyIndexRead
    \/ ApplyIndexWrite
    \/ ApplyReadBack
    \/ ApplyComprehension

SpecUnit == InitUnit /\ [][NextUnit]_vars

(***************************************************************************)
(* Imports of the bare module name m.rl, over file systems, search lists   *)
(* and entry file arguments (SpecImport).                                  *)
(***************************************************************************)
\* the places a file m.rl may be in, and the text of the copy in each
ModuleLocations == {"/cwd/m.rl", "/lib/m.rl", "/opt/m.rl"}
TextIn(location) ==
    CASE location = "/cwd/m.rl" -> TextCwd
      [] location = "/lib/m.rl" -> TextLib
      [] location = "/opt/m.rl" -> TextOpt

\* var("RUSTL_LIB"): unset, or a colon-separated list of directories
LibLists ==
    {None, Some(<<"/lib">>), Some(<<"/opt">>), Some(<<"/lib", "/opt">>),
     Some(<<"/opt", "/lib">>)}

\* args[1] = "main.rl": Path::parent() of a bare file name is ""
BareOrigin ==
    [text |-> "main.rl", dot |-> FALSE, rest |-> "", rest_parent |-> "",
     parent |-> ""]

\* every file system over ModuleLocations in which a copy is absent, empty
\* or holds its text
InitImport ==
    /\ enviornment = InitialFrame
    /\ log = <<>>
    /\ status = "running"
    /\ steps = 0
    /\ last = NoStatement
    /\ \E present \in SUBSET ModuleLocations :
          \E empty \in SUBSET present :
             files = [location \in present |->
                         IF location \in empty THEN "" ELSE TextIn(location)]
    /\ rustl_lib \in LibLists
    /\ origin_file \in {MainOrigin, BareOrigin}
    /\ overflow_checks \in BOOLEAN
    /\ unit = NoCall

ImportBare ==
    /\ Running
    /\ Exec(SImport(Bare("m.rl")))

NextImport == ImportBare

SpecImport == InitImport /\ [][NextImport]_vars

(***************************************************************************)
(* For loops over lists of every length, with bodies that change the       *)
(* source of the loop or the loop variable (SpecFor).                      *)
(***************************************************************************)
\* fn l() { println("l"); } -> xs
FunctionL ==
    UserDefFunction("l", <<>>, <<SExpression(Call1("println", Str1("l")))>>,
                    Some(EIdentifier("xs")))

\* the frame the loops start on: xs a List of n elements, x an Int
ForFrame(n) ==
    [name \in {"print", "println", "l", "x", "xs"} |->
        CASE name = "l" -> FunctionL
          [] name = "x" -> IntV(1)
          [] name = "xs" -> ListV(Tens(n))
          [] OTHER -> FunctionV(name)]

\* for i in xs { xs = []; seen = i; }
ForReassignsSource ==
    SFor("i", EIdentifier("xs"),
         <<SAssignment(EIdentifier("xs"), EList(<<>>)),
           SAssignment(EIdentifier("seen"), EIdentifier("i"))>>)
\* for i in xs { xs[0] = 9; i = 0; }
ForMutatesSource ==
    SFor("i", EIdentifier("xs"),
         <<SAssignment(EIndex("xs", EInt(0)), EInt(9)),
           SAssignment(EIdentifier("i"), EInt(0))>>)
\* for i in [(x += 1), 2] { y = i; }
ForOverLiteral ==
    SFor("i", EList(<<Item(EPrefix("x", "Plus", EInt(1))), Item(EInt(2))>>),
         <<SAssignment(EIdentifier("y"), EIdentifier("i"))>>)
\* for i in l() { x += i; }
ForOverCall ==
    SFor("i", ECall("l", <<>>),
         <<SOperatorAssignment("x", "Plus", EIdentifier("i"))>>)

\* the loops above, loops whose iterable is of a kind that is refused, a
\* loop over an Int variable and a loop whose body fails
ForLoopStatements ==
    { ForReassignsSource, ForMutatesSource, ForOverLiteral, ForOverCall,
      SFor("i", EInt(3), <<>>),
      SFor("i", Str1("a"), <<>>),
      SFor("i", EBoolean(TRUE), <<>>),
      SFor("i", ECharacter("a"), <<>>),
      SFor("i", EOperation(EIdentifier("x"), "Plus", EInt(1)), <<>>),
      SFor("i", EPrefix("x", "Plus", EInt(1)), <<>>),
      SFor("i", EIndex("xs", EPrefix("x", "Plus", EInt(1))), <<>>),
      SFor("i", EComprehension(EPrefix("x", "Plus", EInt(1)), "j",
                               EIdentifier("xs")), <<>>),
      SFor("i", EIdentifier("x"), <<>>),
      SFor("i", EIdentifier("xs"),
           <<SOperatorAssignment("nope", "Plus", EInt(1))>>) }

InitFor ==
    /\ enviornment \in { ForFrame(n) : n \in 0..MaxLen }
    /\ log = <<>>
    /\ status = "running"
    /\ steps = 0
    /\ last = [statement |-> [k |-> "none"], pre |-> enviornment]
    /\ files = MainFiles
    /\ rustl_lib = Some(<<"/lib">>)
    /\ origin_file = MainOrigin
    /\ overflow_checks \in BOOLEAN
    /\ unit = NoCall

RunFor ==
    /\ Running
    /\ \E s \in ForLoopStatements : Exec(s)

NextFor == RunFor

SpecFor == InitFor /\ [][NextFor]_vars

(***************************************************************************)
(* Properties of a program run (Spec).                                     *)
(***************************************************************************)
\* the UserDefFunction a FunctionDefinition statement registers
Defined(s) ==
    UserDefFunction(s.name, s.arguments, s.statements, s.return_expression)

Bound(env, name) == name \in DOMAIN env
BoundTo(env, name, value) == name \in DOMAIN env /\ env[name] = value

CallEvents == { x \in 1..Len(log) : log[x].ev = "call" }

\* the caller's frame when the arguments of the top-level call of the last
\* statement had been evaluated
FrameAfterArguments ==
    eval_expressions(World(last.pre), last.statement.expression.arguments,
                     FALSE).env

LastIsUserCall ==
    /\ last.statement.k = "Expression"
    /\ last.statement.expression.k = "Call"
    /\ Bound(FrameAfterArguments, last.statement.expression.function)
    /\ FrameAfterArguments[last.statement.expression.function].t
          = "UserDefFunction"

\* C1: function frame isolation. Every call of a user-defined function made
\* while the last statement ran, at any depth and whether it returned a
\* value or an error, left the caller's frame as it stood when the arguments
\* had been evaluated; and a top-level call statement leaves the top-level
\* frame as the evaluation of its arguments left it: no parameter binding
\* and nothing the body or the return expression did shows.
FrameIsolation ==
    /\ \A x \in CallEvents : log[x].post = log[x].pre
    /\ LastIsUserCall => enviornment = FrameAfterArguments

\* f(x += 1) returned: the argument's mutation of x shows in the caller's
\* frame, the body's x = 5, p += 1 and q = p do not
FrameIsolationWitness ==
    /\ last.statement = SExpression(Call1("f", EPrefix("x", "Plus", EInt(1))))
    /\ status = "running"
    /\ BoundTo(last.pre, "f", Defined(DefF))
    /\ BoundTo(last.pre, "x", IntV(1))
    /\ BoundTo(enviornment, "x", IntV(2))
    /\ \E x \in CallEvents : log[x].function = "f" /\ log[x].st = "ok"

IsAssignOfCall(function, arguments) ==
    last.statement = SAssignment(EIdentifier("r"), ECall(function, arguments))

\* C2: the value of a call of a user-defined function is its return
\* expression evaluated on the caller's frame as it stood after the
\* arguments were evaluated. A return expression that is an identifier
\* yields what the caller's frame binds to it and fails as undefined when
\* the caller's frame does not bind it, whatever the parameters and the body
\* bound; a function without a return expression yields Null. Seen from the
\* top level: r = f(1) binds r to the caller's x although the body of f
\* assigned x = 5, r = g(2) fails although g returns its parameter,
\* r = k() binds r to the caller's x plus one although the body of k
\* assigned x, and r = h(3) binds r to Null.
ReturnValueFromCallerFrame ==
    /\ \A x \in CallEvents :
          LET e == log[x]
              rx == e.callee.return_expression
          IN  Len(e.vals) = Len(e.callee.arguments) =>
                /\ (~rx.some /\ e.st = "ok") => e.val = Null
                /\ (rx.some /\ rx.x.k = "Identifier") =>
                      IF Bound(e.pre, rx.x.name)
                      THEN e.st = "ok" => e.val = e.pre[rx.x.name]
                      ELSE /\ e.st = "err"
                           /\ e.msg = <<"'{}' is not defined", rx.x.name>>
    /\ (IsAssignOfCall("f", <<EInt(1)>>)
        /\ BoundTo(last.pre, "f", Defined(DefF))) =>
          IF Bound(last.pre, "x")
          THEN /\ status = "running"
               /\ enviornment = insert(last.pre, "r", last.pre["x"])
          ELSE status = "failed" /\ enviornment = last.pre
    /\ (IsAssignOfCall("g", <<EInt(2)>>)
        /\ BoundTo(last.pre, "g", Defined(DefG))
        /\ ~Bound(last.pre, "p")) =>
          status = "failed" /\ enviornment = last.pre
    /\ (IsAssignOfCall("k", <<>>)
        /\ BoundTo(last.pre, "k", Defined(DefK))) =>
          IF Bound(last.pre, "x") /\ last.pre["x"].t = "Int"
          THEN /\ status = "running"
               /\ enviornment
                     = insert(last.pre, "r", IntV(last.pre["x"].v + 1))
          ELSE status = "failed" /\ enviornment = last.pre
    /\ (IsAssignOfCall("h", <<EInt(3)>>)
        /\ BoundTo(last.pre, "h", Defined(DefH))) =>
          status = "running" /\ enviornment = insert(last.pre, "r", Null)

\* r = f(1) with x = 1 in the caller's frame: r is 1, not the 5 of the body
ReturnValueWitness ==
    /\ IsAssignOfCall("f", <<EInt(1)>>)
    /\ BoundTo(last.pre, "f", Defined(DefF))
    /\ BoundTo(last.pre, "x", IntV(1))
    /\ status = "running"
    /\ BoundTo(enviornment, "r", IntV(1))

\* how many Import statements are being evaluated when event x happens
ImportDepth(x) ==
    Cardinality({ y \in 1..(x - 1) : log[y].ev = "import_begin" })
    - Cardinality({ y \in 1..(x - 1) : log[y].ev = "import_end" })

\* C3: import suppression. While a module is being evaluated by an Import
\* statement, at any depth, no native callable is invoked under the name
\* print or println; and after the import of the module m1.rl
\* (let v = 5; println("x");) v is bound to 5 in the importing frame.
ImportSuppression ==
    /\ \A x \in 1..Len(log) :
          (log[x].ev = "invoke" /\ log[x].function \in {"print", "println"})
             => ImportDepth(x) = 0
    /\ (last.statement = SImport(Bare("m1.rl")) /\ status = "running")
          => BoundTo(enviornment, "v", IntV(5))

\* C9: the identifier "_" is write-only. No top-level frame binds "_", and a
\* statement that evaluates the identifier "_" fails as undefined.
UnderscoreNeverReadable ==
    /\ ~Bound(enviornment, "_")
    /\ last.statement = SExpression(EIdentifier("_")) =>
          status = "failed"

\* C10: a function name cannot be rebound. A name bound to a
\* UserDefFunction stays bound to that same UserDefFunction whatever
\* statement is executed against the frame.
FunctionNameNotRebound ==
    [][\A name \in DOMAIN enviornment :
          enviornment[name].t = "UserDefFunction"
             => /\ name \in DOMAIN enviornment'
                /\ enviornment'[name] = enviornment[name]]_vars

(***************************************************************************)
(* Properties of the functions applied on their own (SpecUnit).            *)
(***************************************************************************)
\* the quotient truncated toward zero
TruncDiv(a, b) ==
    IF (a >= 0) = (b >= 0) THEN unsigned_abs(a) \div unsigned_abs(b)
    ELSE 0 - (unsigned_abs(a) \div unsigned_abs(b))

ReferenceOperator(operator, a, b) ==
    CASE operator = "Plus" -> IntV(a + b)
      [] operator = "Minus" -> IntV(a - b)
      [] operator = "Times" -> IntV(a * b)
      [] operator = "Divide" -> IntV(TruncDiv(a, b))
      [] operator = "LessThan" -> BoolV(a < b)
      [] operator = "GreaterThan" -> BoolV(a > b)
      [] operator = "Equal" -> BoolV(a = b)
      [] operator = "NotEqual" -> BoolV(a # b)

\* C4: on Int operands operate agrees with the reference operator of op:
\* sum, difference, product, quotient truncated toward zero (divisor not 0)
\* and the four comparisons.
OperateMatchesReference ==
    (unit.fn = "operate" /\ ~(unit.operator = "Divide" /\ unit.b = 0))
       => unit.val = ReferenceOperator(unit.operator, unit.a, unit.b)

NoSpread(lhs) == \A x \in 1..Len(lhs) : ~lhs[x].is_spread
LastIsPack(lhs) == Len(lhs) >= 1 /\ lhs[Len(lhs)].is_pack
OnlyLastIsPack(lhs) ==
    LastIsPack(lhs) /\ \A x \in 1..(Len(lhs) - 1) : ~lhs[x].is_pack

\* the frame pre with the first k - 1 names bound positionally and the last
\* name bound to the List of the remaining values
PackBinding(pre, lhs, rhs) ==
    [name \in (DOMAIN pre) \cup { NameAt(x) : x \in 1..Len(lhs) } |->
        IF \E x \in 1..(Len(lhs) - 1) : name = NameAt(x)
        THEN rhs[CHOOSE x \in 1..(Len(lhs) - 1) : name = NameAt(x)]
        ELSE IF name = NameAt(Len(lhs))
        THEN ListV(SubSeq(rhs, Len(lhs), Len(rhs)))
        ELSE pre[name]]

\* C5: pack destructuring. A pattern of k >= 1 identifiers whose last item
\* is marked pack, assigned from n >= k values, binds the first k - 1 names
\* positionally and the last name to the List of all remaining values (a
\* one-element List when n = k).
PackDestructuring ==
    (unit.fn = "assign_list" /\ NoSpread(unit.lhs) /\ OnlyLastIsPack(unit.lhs)
     /\ Len(unit.rhs) >= Len(unit.lhs))
       => /\ unit.st = "ok"
          /\ unit.env = PackBinding(unit.pre, unit.lhs, unit.rhs)

ArityMessage(lhs, rhs) ==
    <<"Cannot assign {} values to {} items", ToString(Len(rhs)),
      ToString(Len(lhs))>>

\* C6: destructuring arity error. With k patterns (none marked spread) and n
\* values, assign_list returns the arity error, never a crash, whenever
\* k > n, or k < n and no last pattern is marked pack (an empty pattern list
\* against values included); the frame is unchanged.
ArityErrorNeverCrashes ==
    (unit.fn = "assign_list" /\ NoSpread(unit.lhs)
     /\ (\/ Len(unit.lhs) > Len(unit.rhs)
         \/ Len(unit.lhs) < Len(unit.rhs) /\ ~LastIsPack(unit.lhs)))
       => /\ unit.st = "err"
          /\ unit.msg = ArityMessage(unit.lhs, unit.rhs)
          /\ unit.env = unit.pre

\* the index expressions of IndexExpressions that evaluate to an Int, and
\* the Int each evaluates to on frame env
IsIntIndex(idx_exp) ==
    idx_exp.k = "Int" \/ idx_exp \in {EIdentifier("i"),
                                       EPrefix("i", "Plus", EInt(1))}
IndexValue(env, idx_exp) ==
    CASE idx_exp.k = "Int" -> idx_exp.v
      [] idx_exp.k = "Identifier" -> env["i"].v
      [] idx_exp.k = "Prefix" -> env["i"].v + 1

\* C7: index read convention. With xs bound to a List L of length n and an
\* index expression evaluating to Int i, xs[i] yields L[i] when 0 <= i < n,
\* yields L[n - |i|] when -n <= i < 0, and fails as out of bounds when
\* |i| > n; a non-Int index fails with the type error; the frame is
\* unchanged in every case.
IndexReadConvention ==
    unit.fn = "index_read" =>
       LET L == unit.pre["xs"].e
           n == Len(L)
       IN  /\ unit.env = unit.pre
           /\ IsIntIndex(unit.idx_exp) =>
                 LET i == IndexValue(unit.pre, unit.idx_exp)
                 IN  /\ (0 <= i /\ i < n) =>
                           unit.st = "ok" /\ unit.val = L[i + 1]
                     /\ (0 - n <= i /\ i < 0) =>
                           /\ unit.st = "ok"
                           /\ unit.val = L[n - unsigned_abs(i) + 1]
                     /\ unsigned_abs(i) > n =>
                           /\ unit.st = "err"
                           /\ unit.msg = <<"Index {} is out of bounds",
                                           ToString(i)>>
           /\ unit.idx_exp \in {EBoolean(TRUE), Str1("a")} =>
                 /\ unit.st = "err"
                 /\ unit.msg = <<"Index must be of type int">>

\* xs[-3] on [10, 20, 30] yields the first element, xs[-1] the last
IndexReadWitness ==
    /\ unit.fn = "index_read"
    /\ unit.pre["xs"] = ListV(Tens(3))
    /\ unit.idx_exp = EInt(-3)
    /\ unit.st = "ok"
    /\ unit.val = IntV(10)

\* the 1-based position of the list that index i of a list of length n names
Position(i, n) == IF i < 0 THEN n - unsigned_abs(i) + 1 ELSE i + 1

\* C8: index write/read round trip. After xs[i] = v succeeded on a List of
\* length n, i is inside the list (0 <= i < n or -n <= i < 0), the list
\* still has length n, every other position holds what it held, no other
\* binding changed, and reading xs[i] with the same index expression yields
\* v and changes nothing.
IndexWriteReadRoundTrip ==
    /\ (unit.fn = "index_write" /\ unit.st = "ok") =>
          LET L == unit.pre["xs"].e
              M == unit.env["xs"].e
              i == IndexValue(unit.pre, unit.idx_exp)
          IN  /\ IsIntIndex(unit.idx_exp)
              /\ (0 <= i /\ i < Len(L)) \/ (0 - Len(L) <= i /\ i < 0)
              /\ DOMAIN unit.env = DOMAIN unit.pre
              /\ \A name \in DOMAIN unit.pre :
                    name # "xs" => unit.env[name] = unit.pre[name]
              /\ Len(M) = Len(L)
              /\ \A x \in 1..Len(L) :
                    x # Position(i, Len(L)) => M[x] = L[x]
    /\ unit.fn = "read_back" =>
          /\ unit.st = "ok"
          /\ unit.val = unit.rhs[1]
          /\ unit.env = unit.pre

\* xs[-1] = 99 on [10, 20, 30], then xs[-1] read back
IndexRoundTripWitness ==
    /\ unit.fn = "read_back"
    /\ unit.lhs["xs"] = ListV(Tens(3))
    /\ unit.idx_exp = EInt(-1)
    /\ unit.pre["xs"] = ListV(<<IntV(10), IntV(20), IntV(99)>>)
    /\ unit.val = IntV(99)

IsOutOfBounds(i) ==
    unit.st = "err" /\ unit.msg = <<"Index {} is out of bounds", ToString(i)>>

\* C11: index read and index write apply the same bounds rule. On a List of
\* length n with an Int index i, each path answers with the out-of-bounds
\* error exactly when |i| > n. The index i = n is therefore rejected by
\* neither path: the operation goes on to access the element at position n,
\* which no list of length n has, and that access aborts the evaluation
\* (the frame is left as it was).
IndexBoundsRule ==
    (unit.fn \in {"index_read", "index_write"} /\ IsIntIndex(unit.idx_exp)) =>
       LET n == Len(unit.pre["xs"].e)
           i == IndexValue(unit.pre, unit.idx_exp)
       IN  /\ IsOutOfBounds(i) <=> unsigned_abs(i) > n
           /\ unit.st = "err" => IsOutOfBounds(i)
           /\ i = n => unit.st = "panic" /\ unit.env = unit.pre
           /\ unit.st = "panic" => i = n

\* xs[3] = 99 on [10, 20, 30] is not rejected and aborts at the element
\* access
IndexBoundsWitness ==
    /\ unit.fn = "index_write"
    /\ unit.pre["xs"] = ListV(Tens(3))
    /\ unit.idx_exp = EInt(3)
    /\ unit.st = "panic"

(***************************************************************************)
(* Properties of the resolution of a bare module name (SpecImport).        *)
(***************************************************************************)
\* the directories in which m.rl exists, in the order the search list names
\* them
LibHits ==
    IF rustl_lib.some
    THEN { x \in 1..Len(rustl_lib.x) :
              (rustl_lib.x[x] \o "/m.rl") \in DOMAIN files }
    ELSE {}
FirstLibHit == CHOOSE x \in LibHits : \A y \in LibHits : x <= y

\* the file the stated resolution order selects: the copy in the entry
\* file's own directory, else the copy in the first directory of the search
\* list that has one
Resolved ==
    IF (Cwd \o "/m.rl") \in DOMAIN files THEN Some(Cwd \o "/m.rl")
    ELSE IF LibHits # {} THEN Some(rustl_lib.x[FirstLibHit] \o "/m.rl")
    ELSE None

\* the frame after the statements of the file at location ran on frame pre
Loaded(pre, location) ==
    IF files[location] = "" THEN pre
    ELSE insert(pre, "at", IntV(Parse(files[location])[1].rhs.v))

\* C12: module resolution order for a bare module name. With the entry file
\* given as ./main.rl, for every file system and every search list in
\* RUSTL_LIB, import m.rl loads the copy in the entry file's own directory
\* if there is one, otherwise the copy in the first directory of the search
\* list that has one, and fails only when no copy exists in any of these
\* places, whatever the matched copy holds (an empty file is loaded as an
\* empty module).
ModuleResolutionOrder ==
    (last.statement = SImport(Bare("m.rl")) /\ origin_file = MainOrigin) =>
       IF Resolved.some
       THEN /\ status = "running"
            /\ enviornment = Loaded(last.pre, Resolved.x)
       ELSE /\ status = "failed"
            /\ enviornment = last.pre

(***************************************************************************)
(* Properties of For loops (SpecFor).                                      *)
(***************************************************************************)
IsIteration(event) == event.ev = "iteration"
NotIteration(event) == event.ev # "iteration"
Iterations == SelectSeq(log, IsIteration)

\* one evaluation of the iterable expression of the last statement on the
\* frame the statement started from
IterableOnce ==
    eval_expression(World(last.pre), last.statement.iterate_expression, FALSE)

IterableKinds == {"List", "Identifier", "Call"}

\* C13: For loop iteration. When the iterable expression (a List literal,
\* Identifier or Call) evaluates to a List of n elements and no error
\* occurs, the iterable expression is evaluated exactly once (the first
\* iteration starts from the frame one evaluation leaves, and what the
\* process did besides iterating is what one evaluation does), the body
\* runs exactly n times, and iteration j starts with the loop variable bound
\* in the enclosing frame to element j of that list, even if the body
\* reassigns the source variable, writes the source list by index or rebinds
\* the loop variable; after the loop the loop variable and the bindings the
\* body made are in the enclosing frame. An iterable expression of any other
\* kind fails before anything is evaluated and leaves the frame unchanged.
ForIteration ==
    last.statement.k = "For" =>
       /\ last.statement.iterate_expression.k \notin IterableKinds =>
             /\ status = "failed"
             /\ enviornment = last.pre
             /\ log = <<>>
       /\ (/\ last.statement.iterate_expression.k \in IterableKinds
           /\ status = "running"
           /\ IterableOnce.st = "ok"
           /\ IterableOnce.val.t = "List") =>
             /\ Len(Iterations) = Len(IterableOnce.val.e)
             /\ \A j \in 1..Len(Iterations) :
                   /\ Iterations[j].x = j
                   /\ Iterations[j].frame[last.statement.loop_var]
                         = IterableOnce.val.e[j]
             /\ Len(Iterations) >= 1 =>
                   /\ Iterations[1].frame
                         = insert(IterableOnce.env, last.statement.loop_var,
                                  IterableOnce.val.e[1])
                   /\ last.statement.loop_var \in DOMAIN enviornment
             /\ SelectSeq(log, NotIteration) = IterableOnce.log
       /\ (/\ last.statement = ForReassignsSource
           /\ last.pre["xs"].t = "List"
           /\ Len(last.pre["xs"].e) >= 1) =>
             /\ status = "running"
             /\ enviornment
                   = insert(insert(insert(last.pre, "xs", ListV(<<>>)), "i",
                                   last.pre["xs"].e[Len(last.pre["xs"].e)]),
                            "seen", last.pre["xs"].e[Len(last.pre["xs"].e)])
       /\ (/\ last.statement = ForMutatesSource
           /\ last.pre["xs"].t = "List"
           /\ Len(last.pre["xs"].e) >= 1) =>
             /\ status = "running"
             /\ enviornment
                   = insert(insert(last.pre, "xs",
                                   ListV([last.pre["xs"].e
                                             EXCEPT ![1] = IntV(9)])),
                            "i", IntV(0))

\* for i in xs { xs = []; seen = i; } on xs = [10, 20, 30]: three
\* iterations although the first one emptied xs, and seen is the last element
ForIterationWitness ==
    /\ last.statement = ForReassignsSource
    /\ last.pre["xs"] = ListV(Tens(3))
    /\ status = "running"
    /\ Len(Iterations) = 3
    /\ enviornment["seen"] = IntV(30)

(***************************************************************************)
(* Properties of the evaluations made on a copy of the frame (SpecUnit).   *)
(***************************************************************************)
\* C14: throwaway evaluation sites do not leak mutations. Evaluating a
\* Comprehension (its source expression, its loop-variable bindings, its
\* result expression) or an Index read leaves every binding of the enclosing
\* frame as it was, and an Index assignment changes no binding but the
\* assigned list (and none at all when it fails), even when the
\* sub-expressions mutate variables, and whether the sub-evaluation succeeds
\* or fails.
ThrowawaySitesDoNotLeak ==
    /\ unit.fn \in {"comprehension", "index_read", "read_back"} =>
          unit.env = unit.pre
    /\ unit.fn = "index_write" =>
          /\ DOMAIN unit.env = DOMAIN unit.pre
          /\ \A name \in DOMAIN unit.pre :
                name # "xs" => unit.env[name] = unit.pre[name]
          /\ unit.st # "ok" => unit.env = unit.pre

\* [(i += 1) for j in xs] on i = -2 and a list of three: the copy of the
\* frame sees i grow item by item, the enclosing frame still has i = -2 and
\* no j
ThrowawayWitness ==
    /\ unit.fn = "comprehension"
    /\ unit.idx_exp = ComprehensionMutatesPerItem
    /\ unit.pre["xs"] = ListV(Tens(3))
    /\ unit.st = "ok"
    /\ unit.val = ListV(<<IntV(-1), IntV(0), IntV(1)>>)
    /\ unit.env["i"] = IntV(-2)
    /\ "j" \notin DOMAIN unit.env

====
